---- MODULE Spec2Model ----
(***************************************************************************)
(* A model of src/ket.rs: the Ket value type (two Complex64 amplitudes),   *)
(* its equality, addition, the two scalar multiplications and the          *)
(* validity predicate.                                                     *)
(*                                                                         *)
(* Every component is an IEEE-754 binary64 number.  The model keeps the    *)
(* full format: 53-bit significands, exponents -1074..971, signed zeros,   *)
(* infinities and NaN, with round-to-nearest-even after every operation.   *)
(* Significands do not fit the model checker's machine integers, so they   *)
(* are kept as little-endian sequences of 13-bit limbs.                    *)
(***************************************************************************)
EXTENDS Integers, Sequences, FiniteSets, Bags, TLC

(***************************************************************************)
(* Evaluation helpers.  An operator's argument is an expression, evaluated *)
(* wherever the operator's body names it; a bound variable is a value.     *)
(* The helpers below bind arguments to values, so that every intermediate  *)
(* result is computed once.                                                *)
(***************************************************************************)
The(S) == CHOOSE v \in S : TRUE

Ap1(F(_), x) == The({F(u) : u \in {x}})
Ap2(F(_, _), x, y) == The({F(u, v) : u \in {x}, v \in {y}})
Ap3(F(_, _, _), x, y, z) == The({F(u, v, w) : u \in {x}, v \in {y}, w \in {z}})
Ap4(F(_, _, _, _), x, y, z, k) ==
  The({F(u, v, w, r) : u \in {x}, v \in {y}, w \in {z}, r \in {k}})

\* F applied n times to st
RECURSIVE Repeat(_, _, _)
Repeat(F(_), n, st) ==
  IF n <= 0 THEN st ELSE The({Repeat(F, m, v) : m \in {n - 1}, v \in {F(st)}})

Max(x, y) == IF x >= y THEN x ELSE y
Min(x, y) == IF x <= y THEN x ELSE y
SetMax(S) == CHOOSE i \in S : \A j \in S : j <= i

\* the sum of the values of f, all >= 0
Sum(f) == BagCardinality([i \in DOMAIN f |-> f[i] + 1]) - Cardinality(DOMAIN f)

(***************************************************************************)
(* Natural numbers of any size: little-endian limb sequences, no leading   *)
(* zero limb, zero is the empty sequence.                                  *)
(***************************************************************************)
LimbBits == 13
Base == 2 ^ LimbBits

BOne == <<1>>

BLimb(a, i) == IF i >= 1 /\ i <= Len(a) THEN a[i] ELSE 0

\* a without its leading zero limbs
BTrimV(a) ==
  LET nz == {i \in 1..Len(a) : a[i] # 0}
  IN  IF nz = {} THEN << >> ELSE SubSeq(a, 1, SetMax(nz))
BTrim(a) == Ap1(BTrimV, a)

\* n < 2^31 as limbs
BFromNatV(n) == BTrim(<<n % Base, (n \div Base) % Base, n \div (Base * Base)>>)
BFromNat(n) == Ap1(BFromNatV, n)

\* Carry propagation: cols[i] is the (possibly negative or oversized)
\* coefficient of Base^(i-1); the value is >= 0.
CarryStep(st) ==
  LET v == BLimb(st.cols, Len(st.acc) + 1) + st.carry
  IN  [cols |-> st.cols, carry |-> v \div Base, acc |-> Append(st.acc, v % Base)]
NormalizeV(cols) ==
  BTrim(Repeat(CarryStep, Len(cols) + 2,
               [cols |-> cols, carry |-> 0, acc |-> << >>]).acc)
Normalize(cols) == Ap1(NormalizeV, cols)

BAddV(a, b) ==
  Normalize([i \in 1..Max(Len(a), Len(b)) |-> BLimb(a, i) + BLimb(b, i)])
BAdd(a, b) == Ap2(BAddV, a, b)

\* a - b for a >= b
BSubV(a, b) == Normalize([i \in 1..Len(a) |-> a[i] - BLimb(b, i)])
BSub(a, b) == Ap2(BSubV, a, b)

\* -1, 0, 1 as a < b, a = b, a > b
BCmpV(a, b) ==
  IF Len(a) < Len(b) THEN -1
  ELSE IF Len(a) > Len(b) THEN 1
  ELSE LET d == {i \in 1..Len(a) : a[i] # b[i]}
       IN  IF d = {} THEN 0
           ELSE IF a[SetMax(d)] < b[SetMax(d)] THEN -1 ELSE 1
BCmp(a, b) == Ap2(BCmpV, a, b)

\* a * b: the coefficient of Base^(k-1) is the sum of a[i] * b[k+1-i]
BMulV(a, b) ==
  IF Len(a) = 0 \/ Len(b) = 0 THEN << >>
  ELSE Normalize([k \in 1..(Len(a) + Len(b)) |->
                    Sum([i \in 1..Len(a) |-> a[i] * BLimb(b, k + 1 - i)])])
BMul(a, b) == Ap2(BMulV, a, b)

\* a * 2^n
BShlV(a, n) ==
  IF Len(a) = 0 THEN << >>
  ELSE LET q == n \div LimbBits
           r == n % LimbBits
           u == 2 ^ (LimbBits - r)
       IN  BTrim([i \in 1..(q + Len(a) + 1) |->
                    (BLimb(a, i - q) % u) * (2 ^ r) + (BLimb(a, i - q - 1) \div u)])
BShl(a, n) == Ap2(BShlV, a, n)

\* floor(a / 2^n)
BShrV(a, n) ==
  LET q == n \div LimbBits
      r == n % LimbBits
      d == 2 ^ r
      u == 2 ^ (LimbBits - r)
  IN  IF Len(a) <= q THEN << >>
      ELSE BTrim([i \in 1..(Len(a) - q) |->
                    (a[q + i] \div d) + (BLimb(a, q + i + 1) % d) * u])
BShr(a, n) == Ap2(BShrV, a, n)

\* a mod 2^n
BLowV(a, n) ==
  LET q == n \div LimbBits
      d == 2 ^ (n % LimbBits)
  IN  BTrim([i \in 1..Min(Len(a), q + 1) |-> IF i <= q THEN a[i] ELSE a[i] % d])
BLow(a, n) == Ap2(BLowV, a, n)

\* the number of bits of a limb
NatBitLen(n) == Cardinality({k \in 0..(LimbBits - 1) : 2 ^ k <= n})

BBitLenV(a) ==
  IF Len(a) = 0 THEN 0 ELSE (Len(a) - 1) * LimbBits + NatBitLen(a[Len(a)])
BBitLen(a) == Ap1(BBitLenV, a)

BOdd(a) == Len(a) > 0 /\ a[1] % 2 = 1

\* bit i (from 0) of a
BBit(a, i) == (BLimb(a, (i \div LimbBits) + 1) \div (2 ^ (i % LimbBits))) % 2

\* One bit of binary long division of st.a by st.b: st.i is the bit of st.a
\* brought down (none below bit 0).
BDivCut(st, r2) ==
  IF BCmp(r2, st.b) >= 0
  THEN [st EXCEPT !.i = st.i - 1, !.quo = BAdd(BShl(st.quo, 1), BOne),
                  !.rem = BSub(r2, st.b)]
  ELSE [st EXCEPT !.i = st.i - 1, !.quo = BShl(st.quo, 1), !.rem = r2]
BDivStep(st) ==
  IF st.i < 0 THEN st
  ELSE Ap2(BDivCut, st,
           BAdd(BShl(st.rem, 1), IF BBit(st.a, st.i) = 1 THEN BOne ELSE << >>))
BDivStep8(st) == Repeat(BDivStep, 8, st)

\* floor(a / b) and whether a remainder is left
BDivV(a, b) ==
  LET st == Repeat(BDivStep8, (BBitLen(a) + 7) \div 8,
                   [a |-> a, b |-> b, i |-> BBitLen(a) - 1,
                    quo |-> << >>, rem |-> << >>])
  IN  [q |-> st.quo, inexact |-> Len(st.rem) > 0]
BDiv(a, b) == Ap2(BDivV, a, b)

\* One digit of the binary square root of st.a: st.i is the pair of bits
\* of st.a brought down.
BSqrtCut(st, r2, trial) ==
  IF BCmp(r2, trial) >= 0
  THEN [st EXCEPT !.i = st.i - 1, !.root = BAdd(BShl(st.root, 1), BOne),
                  !.rem = BSub(r2, trial)]
  ELSE [st EXCEPT !.i = st.i - 1, !.root = BShl(st.root, 1), !.rem = r2]
BSqrtStep(st) ==
  IF st.i < 0 THEN st
  ELSE Ap3(BSqrtCut, st,
           BAdd(BShl(st.rem, 2),
                BFromNat(BBit(st.a, 2 * st.i + 1) * 2 + BBit(st.a, 2 * st.i))),
           BAdd(BShl(st.root, 2), BOne))
BSqrtStep8(st) == Repeat(BSqrtStep, 8, st)

\* floor(sqrt(a)) and whether a is not a perfect square
BSqrtV(a) ==
  LET n  == (BBitLen(a) + 1) \div 2
      st == Repeat(BSqrtStep8, (n + 7) \div 8,
                   [a |-> a, i |-> n - 1, root |-> << >>, rem |-> << >>])
  IN  [q |-> st.root, inexact |-> Len(st.rem) > 0]
BSqrt(a) == Ap1(BSqrtV, a)

(***************************************************************************)
(* f64 (the component type of Complex64): a record                         *)
(*   cls  "nan", "inf", "zero" or "fin"                                    *)
(*   sgn  0 or 1                                                           *)
(*   man, exp  for "fin": the value is man * 2^exp, with man of exactly    *)
(*        MantBits bits (normal) or exp = MinExp (subnormal)               *)
(* so that equal records are equal numbers, up to the sign of zero.        *)
(***************************************************************************)
MantBits == 53
MinExp == -1074
MaxExp == 971
GuardBits == MantBits + 11

NaN == [cls |-> "nan", sgn |-> 0, exp |-> 0, man |-> << >>]
Inf(s) == [cls |-> "inf", sgn |-> s, exp |-> 0, man |-> << >>]
Zero(s) == [cls |-> "zero", sgn |-> s, exp |-> 0, man |-> << >>]
Fin(s, m, e) == [cls |-> "fin", sgn |-> s, exp |-> e, man |-> m]

\* overflow gives an infinity
Pack(s, m, e) == IF e > MaxExp THEN Inf(s) ELSE Fin(s, m, e)

\* a significand that grew to MantBits + 1 bits loses its last (zero) bit
RoundPackV(s, m, e) ==
  IF Len(m) = 0 THEN Zero(s)
  ELSE IF BBitLen(m) > MantBits THEN Pack(s, BShr(m, 1), e + 1)
  ELSE Pack(s, m, e)

\* q is the kept part; c compares the dropped part with half a unit of q
RoundCutV(s, q, c, e) ==
  Ap3(RoundPackV, s,
      IF c > 0 \/ (c = 0 /\ BOdd(q)) THEN BAdd(q, BOne) ELSE q, e)

\* The f64 nearest to (-1)^s * M * 2^E, ties to even.
RoundV(s, M, E) ==
  IF Len(M) = 0 THEN Zero(s)
  ELSE LET nb    == BBitLen(M)
           shift == Max(nb - MantBits, MinExp - E)
       IN  IF shift <= 0 THEN Pack(s, BShl(M, -shift), E + shift)
           ELSE IF shift > nb THEN Zero(s)
           ELSE Ap4(RoundCutV, s, BShr(M, shift),
                    BCmp(BLow(M, shift), BShl(BOne, shift - 1)), E + shift)
Round(s, M, E) == Ap3(RoundV, s, M, E)

\* n * 2^e for a natural n < 2^31
FromInt(n, e) == Round(0, BFromNat(n), e)

FNegV(x) == IF x.cls = "nan" THEN x ELSE [x EXCEPT !.sgn = 1 - x.sgn]
FNeg(x) == Ap1(FNegV, x)
FAbsV(x) == IF x.cls = "nan" THEN x ELSE [x EXCEPT !.sgn = 0]
FAbs(x) == Ap1(FAbsV, x)

IsFinite(x) == x.cls \in {"zero", "fin"}

\* f64 ==: NaN equals nothing, the two zeros are equal
FEqV(x, y) ==
  /\ x.cls # "nan"
  /\ y.cls # "nan"
  /\ \/ x.cls = "zero" /\ y.cls = "zero"
     \/ x = y
FEq(x, y) == Ap2(FEqV, x, y)

\* mh and ml are the magnitudes of the operands in units of 2^e
AddAlignedV(hi, lo, mh, ml, e) ==
  IF hi.sgn = lo.sgn THEN Round(hi.sgn, BAdd(mh, ml), e)
  ELSE LET c == BCmp(mh, ml)
       IN  IF c = 0 THEN Zero(0)
           ELSE IF c > 0 THEN Round(hi.sgn, BSub(mh, ml), e)
           ELSE Round(lo.sgn, BSub(ml, mh), e)

\* hi has the larger exponent.  An operand more than GuardBits binary places
\* below the other only decides the rounding direction.
AddOrderedV(hi, lo) ==
  LET far == hi.exp - lo.exp > GuardBits
      e   == IF far THEN hi.exp - GuardBits ELSE lo.exp
  IN  The({AddAlignedV(hi, lo, mh, ml, e) :
             mh \in {BShl(hi.man, hi.exp - e)},
             ml \in {IF far THEN BOne ELSE lo.man}})

AddFinite(x, y) == IF x.exp >= y.exp THEN AddOrderedV(x, y) ELSE AddOrderedV(y, x)

\* f64 +
FAddV(x, y) ==
  IF x.cls = "nan" \/ y.cls = "nan" THEN NaN
  ELSE IF x.cls = "inf"
       THEN IF y.cls = "inf" /\ y.sgn # x.sgn THEN NaN ELSE x
  ELSE IF y.cls = "inf" THEN y
  ELSE IF x.cls = "zero"
       THEN IF y.cls = "zero"
            THEN Zero(IF x.sgn = 1 /\ y.sgn = 1 THEN 1 ELSE 0)
            ELSE y
  ELSE IF y.cls = "zero" THEN x
  ELSE AddFinite(x, y)
FAdd(x, y) == Ap2(FAddV, x, y)

\* f64 -
FSub(x, y) == FAdd(x, FNeg(y))

\* f64 *
FMulV(x, y) ==
  IF x.cls = "nan" \/ y.cls = "nan" THEN NaN
  ELSE IF (x.cls = "inf" /\ y.cls = "zero") \/ (x.cls = "zero" /\ y.cls = "inf")
       THEN NaN
  ELSE LET s == (x.sgn + y.sgn) % 2
       IN  IF x.cls = "inf" \/ y.cls = "inf" THEN Inf(s)
           ELSE IF x.cls = "zero" \/ y.cls = "zero" THEN Zero(s)
           ELSE Round(s, BMul(x.man, y.man), x.exp + y.exp)
FMul(x, y) == Ap2(FMulV, x, y)

\* a quotient or root d with its sticky bit appended, in units of 2^e
RoundSticky(s, d, e) ==
  Round(s, BAdd(BShl(d.q, 1), IF d.inexact THEN BOne ELSE << >>), e - 1)

\* f64 /
FDivV(x, y) ==
  IF x.cls = "nan" \/ y.cls = "nan" THEN NaN
  ELSE IF (x.cls = "inf" /\ y.cls = "inf") \/ (x.cls = "zero" /\ y.cls = "zero")
       THEN NaN
  ELSE LET s == (x.sgn + y.sgn) % 2
           k == Max(0, MantBits + 3 + BBitLen(y.man) - BBitLen(x.man))
       IN  IF x.cls = "inf" \/ y.cls = "zero" THEN Inf(s)
           ELSE IF x.cls = "zero" \/ y.cls = "inf" THEN Zero(s)
           ELSE Ap3(RoundSticky, s, BDiv(BShl(x.man, k), y.man), x.exp - y.exp - k)
FDiv(x, y) == Ap2(FDivV, x, y)

\* The f64 nearest to sqrt(M * 2^E), M > 0
SqrtRoundV(M, E) ==
  LET k0 == Max(0, 2 * MantBits + 4 - BBitLen(M))
      k  == IF (E - k0) % 2 = 0 THEN k0 ELSE k0 + 1
  IN  Ap3(RoundSticky, 0, BSqrt(BShl(M, k)), (E - k) \div 2)
SqrtRound(M, E) == Ap2(SqrtRoundV, M, E)

\* f64::sqrt
FSqrtV(x) ==
  IF x.cls = "nan" THEN NaN
  ELSE IF x.cls = "zero" THEN x
  ELSE IF x.sgn = 1 THEN NaN
  ELSE IF x.cls = "inf" THEN x
  ELSE SqrtRound(x.man, x.exp)
FSqrt(x) == Ap1(FSqrtV, x)

\* hi has the larger exponent; the sum of the squares is exact
HypotOrderedV(hi, lo) ==
  LET far == hi.exp - lo.exp > GuardBits
      e   == IF far THEN hi.exp - GuardBits ELSE lo.exp
  IN  The({SqrtRound(BAdd(BMul(mh, mh), IF far THEN BOne ELSE BMul(lo.man, lo.man)),
                     2 * e) : mh \in {BShl(hi.man, hi.exp - e)}})

\* f64::hypot: sqrt(x^2 + y^2) without intermediate rounding, overflow or
\* underflow; an infinite argument gives +inf even beside a NaN.
FHypotV(x, y) ==
  IF x.cls = "inf" \/ y.cls = "inf" THEN Inf(0)
  ELSE IF x.cls = "nan" \/ y.cls = "nan" THEN NaN
  ELSE IF x.cls = "zero" THEN FAbs(y)
  ELSE IF y.cls = "zero" THEN FAbs(x)
  ELSE IF x.exp >= y.exp THEN HypotOrderedV(x, y) ELSE HypotOrderedV(y, x)
FHypot(x, y) == Ap2(FHypotV, x, y)

\* f64 <
FLtV(x, y) ==
  /\ x.cls # "nan"
  /\ y.cls # "nan"
  /\ ~(x.cls = "zero" /\ y.cls = "zero")
  /\ IF x.sgn # y.sgn THEN x.sgn = 1
     ELSE LET c == IF x.cls = "inf" THEN (IF y.cls = "inf" THEN 0 ELSE 1)
                   ELSE IF y.cls = "inf" THEN -1
                   ELSE IF x.cls = "zero" THEN -1
                   ELSE IF y.cls = "zero" THEN 1
                   ELSE IF x.exp # y.exp THEN (IF x.exp < y.exp THEN -1 ELSE 1)
                   ELSE BCmp(x.man, y.man)
          IN  IF x.sgn = 0 THEN c < 0 ELSE c > 0
FLt(x, y) == Ap2(FLtV, x, y)

\* f64 <=
FLeV(x, y) == FEqV(x, y) \/ FLtV(x, y)
FLe(x, y) == Ap2(FLeV, x, y)

(***************************************************************************)
(* f64::to_bits read as an i64, and the i64 arithmetic float_cmp does on   *)
(* it.  An i64 is a sign and a magnitude.                                  *)
(***************************************************************************)
FracBits == MantBits - 1
ExpField(n) == BShl(BFromNat(n), FracBits)
TwoTo63 == BShl(BOne, 63)
TwoTo64 == BShl(BOne, 64)

\* the low 63 bits of the representation: exponent field and fraction (the
\* leading bit of a normal significand adds one to the exponent field)
MagBits(x) ==
  IF x.cls = "zero" THEN << >>
  ELSE IF x.cls = "inf" THEN ExpField(2047)
  ELSE IF x.cls = "nan" THEN BAdd(ExpField(2047), BShl(BOne, FracBits - 1))
  ELSE BAdd(ExpField(x.exp - MinExp), x.man)

SIntV(neg, mag) == [neg |-> neg /\ Len(mag) > 0, mag |-> mag]
SInt(neg, mag) == Ap2(SIntV, neg, mag)

\* x.to_bits() as i64
ToBitsI64V(x) ==
  IF x.sgn = 0 THEN SInt(FALSE, MagBits(x))
  ELSE SInt(TRUE, BSub(TwoTo63, MagBits(x)))
ToBitsI64(x) == Ap1(ToBitsI64V, x)

\* the exact difference p - q
SSubV(p, q) ==
  IF p.neg # q.neg THEN SInt(p.neg, BAdd(p.mag, q.mag))
  ELSE IF BCmp(p.mag, q.mag) >= 0 THEN SInt(p.neg, BSub(p.mag, q.mag))
  ELSE SInt(~p.neg, BSub(q.mag, p.mag))
SSub(p, q) == Ap2(SSubV, p, q)

\* reduction modulo 2^64 into -2^63 .. 2^63 - 1
Wrap64V(v) ==
  IF ~v.neg /\ BCmp(v.mag, TwoTo63) >= 0 THEN SInt(TRUE, BSub(TwoTo64, v.mag))
  ELSE IF v.neg /\ BCmp(v.mag, TwoTo63) > 0 THEN SInt(FALSE, BSub(TwoTo64, v.mag))
  ELSE v
Wrap64(v) == Ap1(Wrap64V, v)

\* i64::wrapping_sub
WrappingSub(p, q) == Wrap64(SSub(p, q))

\* float_cmp's saturating_abs_i64!: |i64::MIN| is i64::MAX
SaturatingAbsV(v) ==
  IF v.neg /\ v.mag = TwoTo63 THEN BSub(TwoTo63, BOne) ELSE v.mag
SaturatingAbs(v) == Ap1(SaturatingAbsV, v)

\* <f64 as Ulps>::ulps
UlpsDiff(x, y) == WrappingSub(ToBitsI64(x), ToBitsI64(y))

\* the ulps argument of approx_eq! in is_valid
ULPS == 2

\* approx_eq!(f64, x, y, ulps = n): the margin is F64Margin::zero().ulps(n),
\* so its epsilon is 0.0
ApproxEqV(x, y, n) ==
  \/ FEq(x, y)
  \/ FLe(FAbs(FSub(x, y)), Zero(0))
  \/ BCmp(SaturatingAbs(UlpsDiff(x, y)), BFromNat(n)) <= 0
ApproxEq(x, y, n) == Ap3(ApproxEqV, x, y, n)

(***************************************************************************)
(* Complex64: a real and an imaginary f64                                  *)
(***************************************************************************)
ComplexV(re, im) == [re |-> re, im |-> im]
Complex(re, im) == Ap2(ComplexV, re, im)

\* Complex64 ==
CEqV(z, w) == FEqV(z.re, w.re) /\ FEqV(z.im, w.im)
CEq(z, w) == Ap2(CEqV, z, w)

\* the imaginary parts subtracted
CAddConj(z, w) == Complex(FAdd(z.re, w.re), FSub(z.im, w.im))

\* Complex64 + Complex64
CAddV(z, w) == Complex(FAdd(z.re, w.re), FAdd(z.im, w.im))
CAdd(z, w) == Ap2(CAddV, z, w)

\* the products of the imaginary parts added to the real part
CMulPlus(z, w) ==
  Complex(FAdd(FMul(z.re, w.re), FMul(z.im, w.im)),
          FAdd(FMul(z.re, w.im), FMul(z.im, w.re)))

\* Complex64 * Complex64
CMulV(z, w) ==
  Complex(FSub(FMul(z.re, w.re), FMul(z.im, w.im)),
          FAdd(FMul(z.re, w.im), FMul(z.im, w.re)))
CMul(z, w) == Ap2(CMulV, z, w)

\* norm_sqr in place of norm
CNormSqr(z) == FAdd(FMul(z.re, z.re), FMul(z.im, z.im))

\* Complex64::norm
CNormV(z) == FHypot(z.re, z.im)
CNorm(z) == Ap1(CNormV, z)

\* Complex64::from(f64)
CFromReal(r) == Complex(r, Zero(0))

F64One == FromInt(1, 0)

COMPLEX_ZERO == Complex(Zero(0), Zero(0))
COMPLEX_ONE == Complex(F64One, Zero(0))

(***************************************************************************)
(* Ket                                                                     *)
(***************************************************************************)
KetV(first, second) == [first |-> first, second |-> second]
Ket(first, second) == Ap2(KetV, first, second)

KET_ZERO == Ket(COMPLEX_ONE, COMPLEX_ZERO)
KET_ONE == Ket(COMPLEX_ZERO, COMPLEX_ONE)

\* equality within the tolerance of is_valid instead of exact equality
KetEqApprox(k, other) ==
  /\ ApproxEq(k.first.re, other.first.re, ULPS)
  /\ ApproxEq(k.first.im, other.first.im, ULPS)
  /\ ApproxEq(k.second.re, other.second.re, ULPS)
  /\ ApproxEq(k.second.im, other.second.im, ULPS)

\* the second comparison made against other.first
KetEqCrossed(k, other) == CEq(k.first, other.first) /\ CEq(k.second, other.first)

\* impl PartialEq for Ket
KetEqV(k, other) == CEqV(k.first, other.first) /\ CEqV(k.second, other.second)
KetEq(k, other) == Ap2(KetEqV, k, other)

\* the second amplitude left out of the sum
KetAddFirstOnly(k, other) == Ket(CAdd(k.first, other.first), k.second)

\* impl Add for Ket
KetAddV(k, other) ==
  Ket(CAdd(k.first, other.first), CAdd(k.second, other.second))
KetAdd(k, other) == Ap2(KetAddV, k, other)

\* both amplitudes computed from k.first
KetMulScalarFirstTwice(k, rhs) == Ket(CMul(k.first, rhs), CMul(k.first, rhs))

\* impl Mul<Complex64> for Ket
KetMulScalarV(k, rhs) == Ket(CMul(k.first, rhs), CMul(k.second, rhs))
KetMulScalar(k, rhs) == Ap2(KetMulScalarV, k, rhs)

\* the second amplitude left unscaled
ScalarMulKetFirstOnly(z, rhs) == Ket(CMul(z, rhs.first), rhs.second)

\* impl Mul<Ket> for Complex64
ScalarMulKetV(z, rhs) == Ket(CMul(z, rhs.first), CMul(z, rhs.second))
ScalarMulKet(z, rhs) == Ap2(ScalarMulKetV, z, rhs)

\* (a * a) + (b * b) of is_valid, for a and b the norms of the amplitudes
SumOfSquares(na, nb) == FAdd(FMul(na, na), FMul(nb, nb))

\* the second norm left out of the sum
FirstNormSq(k) == Ap2(SumOfSquares, CNorm(k.first), Zero(0))

\* is_valid's local result
NormSqSum(k) == Ap2(SumOfSquares, CNorm(k.first), CNorm(k.second))

\* exact comparison with 1.0 in place of the tolerance
ExactlyOne(x) == FEq(x, F64One)

\* approx_eq!(f64, result, 1.0, ulps = 2)
ApproxOne(x) == ApproxEq(x, F64One, ULPS)

(***************************************************************************)
(* Inputs.  The operations are pure functions; a run draws the operands    *)
(* a, b, c (kets) and s, t (scalars) once and then applies operations to   *)
(* them.  Kets are built from literal components, as the tests build       *)
(* them, or as linear combinations of the basis states.                    *)
(***************************************************************************)
\* integer-valued components 0 .. MaxInt
MaxInt == 1
\* distance from 1.0, in units of 2^-53, of the components that put the
\* norm-squared sum around 1.0
MaxStep == 3

\* the f64 of a decimal literal 0.d
Tenths(d) == FDiv(FromInt(d, 0), FromInt(10, 0))
Half == FromInt(1, -1)
\* 1.0 / 2.0_f64.sqrt()
InvSqrt2 == FDiv(F64One, FSqrt(FromInt(2, 0)))
\* half the gap between 1.0 and the next f64
HalfUlp == FromInt(1, -MantBits)
\* 2^1023, the largest power of two
Huge == FromInt(1, 1023)
HugeComplex == Complex(Huge, Huge)

\* 1 - i * 2^-53: the i-th f64 below 1.0
OneMinus(i) == FSub(F64One, FromInt(i, -MantBits))
\* sqrt(j) * 2^-27, whose square is about j * 2^-54
RootStep(j) == FMul(FSqrt(FromInt(j, 0)), FromInt(1, -27))

\* the literals 0.6 and 0.8 of the tests, and the f64 next below 1.0
PointSix == Tenths(6)
PointEight == Tenths(8)
BelowOne == OneMinus(1)

AlgFloats ==
  {NaN, Inf(0), Zero(1), PointSix, BelowOne} \cup {FromInt(n, 0) : n \in 0..MaxInt}
SideFloats == {Zero(0), PointEight}

AlgComplex == {Complex(x, y) : x \in AlgFloats, y \in SideFloats}
AlgKets ==
  {KET_ZERO, KET_ONE}
    \cup {Ket(Complex(x, y), Complex(y, x)) : x \in AlgFloats, y \in SideFloats}

TripleKets ==
  {Ket(Complex(x, y), Complex(y, x)) :
     x \in {F64One, HalfUlp}, y \in {Zero(0), Zero(1)}}

\* the scalars of the tests, their neighbours, and one near the overflow threshold
UnitComplex ==
  { CFromReal(PointSix), CFromReal(PointEight),
    Complex(Half, Half), Complex(Zero(0), InvSqrt2),
    Complex(FNeg(Half), Half), Complex(Half, FNeg(Half)),
    COMPLEX_ONE, COMPLEX_ZERO, Complex(Zero(0), F64One),
    HugeComplex }

NormKets ==
  {Ket(Complex(OneMinus(i), Zero(0)), Complex(RootStep(j), Zero(0))) :
     i \in 0..MaxStep, j \in 0..(4 * MaxStep)}

VARIABLES
  a, b, c,   \* operand kets
  s, t,      \* operand scalars
  op,        \* the arithmetic applied so far
  res,       \* the current ket: a, or the result of the arithmetic
  chk,       \* the predicate evaluated on it, if any
  result,    \* is_valid's local: the sum of the squared norms
  flag       \* that predicate's result

vars == <<a, b, c, s, t, op, res, chk, result, flag>>

Start ==
  /\ op = "none"
  /\ res = a
  /\ chk = "none"
  /\ result = Zero(0)
  /\ flag = FALSE

InitPairs ==
  /\ a \in AlgKets
  /\ b \in AlgKets
  /\ c = KET_ZERO
  /\ s = COMPLEX_ONE
  /\ t = COMPLEX_ONE

InitTriples ==
  /\ a \in TripleKets
  /\ b \in TripleKets
  /\ c \in TripleKets
  /\ s = COMPLEX_ONE
  /\ t = COMPLEX_ONE

\* the product of HugeComplex with itself overflows
InitScale ==
  /\ a \in AlgKets \cup {Ket(HugeComplex, COMPLEX_ONE)}
  /\ b = KET_ZERO
  /\ c = KET_ONE
  /\ s \in AlgComplex \cup {HugeComplex}
  /\ t = s

InitCombine ==
  /\ a = KET_ZERO
  /\ b = KET_ZERO
  /\ c = KET_ONE
  /\ \/ s \in AlgComplex /\ t \in AlgComplex
     \/ s \in UnitComplex /\ t \in UnitComplex

InitNorm ==
  /\ a \in NormKets
  /\ b = KET_ZERO
  /\ c = KET_ONE
  /\ s = COMPLEX_ONE
  /\ t = COMPLEX_ONE

Init ==
  /\ InitPairs \/ InitTriples \/ InitScale \/ InitCombine \/ InitNorm
  /\ Start

\* res == b
Eq ==
  /\ chk = "none"
  /\ chk' = "eq"
  /\ flag' = KetEq(res, b)
  /\ UNCHANGED <<a, b, c, s, t, op, res, result>>

\* a + b, then (a + b) + c
Add ==
  /\ chk = "none"
  /\ op \in {"none", "add"}
  /\ res' = KetAdd(res, IF op = "none" THEN b ELSE c)
  /\ op' = IF op = "none" THEN "add" ELSE "add_add"
  /\ UNCHANGED <<a, b, c, s, t, chk, result, flag>>

\* a * s
MulKetScalar ==
  /\ chk = "none"
  /\ op = "none"
  /\ res' = KetMulScalar(res, s)
  /\ op' = "ket_mul_scalar"
  /\ UNCHANGED <<a, b, c, s, t, chk, result, flag>>

\* s * a
MulScalarKet ==
  /\ chk = "none"
  /\ op = "none"
  /\ res' = ScalarMulKet(s, res)
  /\ op' = "scalar_mul_ket"
  /\ UNCHANGED <<a, b, c, s, t, chk, result, flag>>

\* s * KET_ZERO + t * KET_ONE
Superpose(z, w) == KetAdd(ScalarMulKet(z, KET_ZERO), ScalarMulKet(w, KET_ONE))

Combine ==
  /\ chk = "none"
  /\ op = "none"
  /\ res' = Superpose(s, t)
  /\ op' = "combine"
  /\ UNCHANGED <<a, b, c, s, t, chk, result, flag>>

\* res.is_valid()
CheckValid ==
  /\ chk = "none"
  /\ chk' = "is_valid"
  /\ result' = NormSqSum(res)
  /\ flag' = ApproxOne(result')
  /\ UNCHANGED <<a, b, c, s, t, op, res>>

Next == Eq \/ Add \/ MulKetScalar \/ MulScalarKet \/ Combine \/ CheckValid

Spec == Init /\ [][Next]_vars

(***************************************************************************)
(* Properties.  An f64 is finite when it is neither NaN nor an infinity.   *)
(***************************************************************************)
HasNaN(z) == z.re.cls = "nan" \/ z.im.cls = "nan"
KetHasNaN(k) == HasNaN(k.first) \/ HasNaN(k.second)
CFinite(z) == IsFinite(z.re) /\ IsFinite(z.im)
KetFinite(k) == CFinite(k.first) /\ CFinite(k.second)

\* the imaginary unit 0 + 1i
COMPLEX_I == Complex(Zero(0), F64One)

\* C1 (as stated): KET_ZERO + KET_ONE equals the ket whose first amplitude
\* is (1, 0) and whose second amplitude is (0, 1), as (real, imaginary).
C1_AsStated ==
  (op = "add" /\ a = KET_ZERO /\ b = KET_ONE)
    => KetEq(res, Ket(COMPLEX_ONE, COMPLEX_I))

\* C1 (amended): KET_ZERO + KET_ONE equals the ket whose two amplitudes are
\* both (1, 0): each amplitude is the sum of a 1 + 0i and a 0 + 0i.
C1_SumOfBasis ==
  (op = "add" /\ a = KET_ZERO /\ b = KET_ONE)
    => /\ KetEq(res, Ket(COMPLEX_ONE, COMPLEX_ONE))
       /\ ~KetEq(res, Ket(COMPLEX_ONE, COMPLEX_I))

C1_Witness ==
  /\ op = "add"
  /\ a = KET_ZERO
  /\ b = KET_ONE
  /\ res = Ket(COMPLEX_ONE, COMPLEX_ONE)

\* x and y are the same number: no NaN, and equal values (the two zeros are
\* the same number)
SameNumber(x, y) ==
  \/ x.cls = "zero" /\ y.cls = "zero"
  \/ x.cls = "inf" /\ y.cls = "inf" /\ x.sgn = y.sgn
  \/ x.cls = "fin" /\ y.cls = "fin" /\ x.sgn = y.sgn /\ x.exp = y.exp /\ x.man = y.man

\* C2: a ket equals another if and only if the real and the imaginary part
\* of both amplitudes are the same numbers, with no tolerance; KET_ZERO does
\* not equal KET_ONE.
C2_ExactEquality ==
  /\ chk = "eq" =>
       (flag <=> /\ SameNumber(res.first.re, b.first.re)
                 /\ SameNumber(res.first.im, b.first.im)
                 /\ SameNumber(res.second.re, b.second.re)
                 /\ SameNumber(res.second.im, b.second.im))
  /\ (chk = "eq" /\ op = "none" /\ a = KET_ZERO /\ b = KET_ONE) => ~flag

\* two kets one step of the f64 grid apart compare unequal
C2_Witness ==
  /\ chk = "eq"
  /\ op = "none"
  /\ ~flag
  /\ a.first.re = F64One
  /\ b.first.re = BelowOne
  /\ a.first.im = b.first.im

\* C3: on kets without NaN components equality is reflexive, symmetric and
\* transitive.
C3_Equivalence ==
  /\ (chk = "eq" /\ op = "none" /\ a = b /\ ~KetHasNaN(a)) => flag
  /\ (chk = "eq" /\ op = "none" /\ flag /\ ~KetHasNaN(a) /\ ~KetHasNaN(b))
       => KetEq(b, a)
  /\ (chk = "eq" /\ op = "none" /\ flag /\ KetEq(b, c)
        /\ ~KetHasNaN(a) /\ ~KetHasNaN(b) /\ ~KetHasNaN(c))
       => KetEq(a, c)

\* equal kets that are different records (zeros of different sign)
C3_Witness ==
  /\ chk = "eq"
  /\ op = "none"
  /\ flag
  /\ a # b
  /\ KetEq(b, c)
  /\ b # c
  /\ ~KetHasNaN(a)

Scaled == op \in {"ket_mul_scalar", "scalar_mul_ket"}

\* C4 (as stated): scaling any ket by 1 + 0i, from either side, returns a
\* ket equal to it.
C4_AsStated == (Scaled /\ s = COMPLEX_ONE) => KetEq(res, a)

\* C4 (amended): scaling a ket by 1 + 0i, from either side, returns a ket
\* equal to it exactly when all its components are finite; an infinite or
\* NaN component puts a NaN into the product (inf * 0).
C4_IdentityOnFinite ==
  (Scaled /\ s = COMPLEX_ONE) => (KetEq(res, a) <=> KetFinite(a))

C4_Witness ==
  /\ op = "ket_mul_scalar"
  /\ s = COMPLEX_ONE
  /\ a.first.re = PointSix
  /\ a.first.im = PointEight
  /\ KetEq(res, a)

\* res is the componentwise f64 sum of a and b
SumOfComponents ==
  /\ res.first.re = FAdd(a.first.re, b.first.re)
  /\ res.first.im = FAdd(a.first.im, b.first.im)
  /\ res.second.re = FAdd(a.second.re, b.second.re)
  /\ res.second.im = FAdd(a.second.im, b.second.im)

\* C5 (as stated): a + b is the componentwise sum, a + b equals b + a, and
\* (a + b) + c equals a + (b + c), for all kets.
C5_AsStated ==
  /\ op = "add" => (SumOfComponents /\ KetEq(res, KetAdd(b, a)))
  /\ op = "add_add" => KetEq(res, KetAdd(a, KetAdd(b, c)))

\* C5 (amended): a + b is the componentwise sum, and a + b equals b + a
\* exactly when the sum has no NaN component.  (Every component sum is
\* rounded, so the two groupings of a + b + c can differ.)
C5_ComponentwiseCommutative ==
  op = "add" =>
    /\ SumOfComponents
    /\ KetEq(res, KetAdd(b, a)) <=> ~KetHasNaN(res)

\* finite kets whose sum commutes and whose two groupings differ
C5_Witness ==
  /\ op = "add_add"
  /\ KetFinite(a) /\ KetFinite(b) /\ KetFinite(c)
  /\ a # b
  /\ KetEq(KetAdd(a, b), KetAdd(b, a))
  /\ ~KetEq(res, KetAdd(a, KetAdd(b, c)))

\* (a + bi)(c + di) = (ac - bd) + (ad + bc)i, every operation rounded to f64
StandardProduct(z, w) ==
  [re |-> FSub(FMul(z.re, w.re), FMul(z.im, w.im)),
   im |-> FAdd(FMul(z.re, w.im), FMul(z.im, w.re))]

\* res has the components s * a.first and s * a.second
ProductOfComponents ==
  /\ res.first = StandardProduct(s, a.first)
  /\ res.second = StandardProduct(s, a.second)

\* the result of the other entry point on the same operands
OtherEntryPoint ==
  IF op = "ket_mul_scalar" THEN ScalarMulKet(s, a) ELSE KetMulScalar(a, s)

\* C6 (as stated): for every ket and scalar the two entry points return
\* equal kets, with amplitudes s * k.first and s * k.second under the
\* standard complex product.
C6_AsStated == Scaled => (ProductOfComponents /\ KetEq(res, OtherEntryPoint))

\* C6 (amended): for every ket and scalar both entry points return the
\* amplitudes s * k.first and s * k.second under the standard complex
\* product, NaN components included; the two results compare equal exactly
\* when the product has no NaN component.
C6_SameProduct ==
  Scaled =>
    /\ ProductOfComponents
    /\ res = OtherEntryPoint
    /\ KetEq(res, OtherEntryPoint) <=> ~KetHasNaN(res)

C6_Witness ==
  /\ op = "ket_mul_scalar"
  /\ s = Complex(PointSix, PointEight)
  /\ a.first = Complex(BelowOne, PointEight)
  /\ KetEq(res, ScalarMulKet(s, a))

\* C7 (as stated): for all scalars s and t, s * KET_ZERO + t * KET_ONE
\* equals the ket with amplitudes s and t.
C7_AsStated == op = "combine" => KetEq(res, Ket(s, t))

\* C7 (amended): s * KET_ZERO + t * KET_ONE equals the ket with amplitudes
\* s and t exactly when the components of s and t are finite; in
\* particular for s = 0.6 + 0i and t = 0.8 + 0i.
C7_LinearCombination ==
  /\ op = "combine" => (KetEq(res, Ket(s, t)) <=> (CFinite(s) /\ CFinite(t)))
  /\ (op = "combine" /\ s.im = Zero(0) /\ t.im = Zero(0)
        /\ s.re = PointSix /\ t.re = PointEight)
       => KetEq(res, Ket(Complex(PointSix, Zero(0)), Complex(PointEight, Zero(0))))

C7_Witness ==
  /\ op = "combine"
  /\ s.im = Zero(0)
  /\ t.im = Zero(0)
  /\ s.re = PointSix
  /\ t.re = PointEight
  /\ KetEq(res, Ket(s, t))

\* C8: KET_ZERO and KET_ONE are valid; KET_ONE + KET_ZERO is not, its sum
\* of squared norms being 2.
C8_BasisValidity ==
  /\ (chk = "is_valid" /\ op = "none" /\ a \in {KET_ZERO, KET_ONE}) => flag
  /\ (chk = "is_valid" /\ op = "add" /\ a = KET_ONE /\ b = KET_ZERO)
       => (~flag /\ result = FromInt(2, 0))

C8_Witness ==
  /\ chk = "is_valid"
  /\ op = "add"
  /\ a = KET_ONE
  /\ b = KET_ZERO
  /\ ~flag

\* the exact value of x^2 in units of 2^(2e), for a finite x and e <= x.exp
SquareAt(x, e) ==
  IF x.cls = "zero" THEN << >> ELSE BShl(BMul(x.man, x.man), 2 * (x.exp - e))

\* |z|^2 + |w|^2 = 1 in exact arithmetic
UnitNormSq(z, w) ==
  /\ CFinite(z)
  /\ CFinite(w)
  /\ LET xs == {x \in {z.re, z.im, w.re, w.im} : x.cls = "fin"}
         e  == -SetMax({-x.exp : x \in xs})
     IN  /\ xs # {}
         /\ \A x \in xs : x.exp <= 0
         /\ BAdd(BAdd(SquareAt(z.re, e), SquareAt(z.im, e)),
                 BAdd(SquareAt(w.re, e), SquareAt(w.im, e)))
              = BShl(BOne, -2 * e)

OnePlus(i) == FAdd(F64One, FromInt(i, 1 - MantBits))

\* the f64 at most ULPS steps of the f64 grid away from 1.0
NearOne == {OneMinus(i) : i \in 0..ULPS} \cup {OnePlus(i) : i \in 0..ULPS}

\* C10: is_valid is true when the sum of the squared norms, computed in
\* f64, is at most 2 ULPs (steps of the f64 grid) away from 1.0, and false
\* when it is further away; it is not exact equality with 1.0.
C10_ToleranceBoundary ==
  chk = "is_valid" => (flag <=> result \in NearOne)

C10_Witness ==
  /\ chk = "is_valid"
  /\ flag
  /\ result = OneMinus(ULPS)

====
